---- MODULE Spec2Model ----
(***************************************************************************)
(* Authentication and session control of the TaskFlow API: AuthService,    *)
(* TokenService, RefreshTokenRepository, UsersService and the Redis keys   *)
(* they use (login-attempt counters and the access-token blacklist).       *)
(*                                                                         *)
(* Time is the Unix clock in whole seconds.  A JWT is modelled by the      *)
(* fields that decide its bytes: two HS256 tokens over the same payload    *)
(* and the same iat are the same string.                                   *)
(***************************************************************************)
EXTENDS Integers, Sequences, FiniteSets, TLC

\* ------------------------------------------------------------------ bounds
MaxTicks == 1        \* clock advances per behaviour
MaxRecords == 2      \* rows of the refresh_token table / token pairs issued
MaxAttempts == 5     \* failed logins counted over all emails at one time
MaxConcRecords == 3  \* rows of the table in the runs with two requests in flight
MaxRemovals == 1     \* users removed per behaviour
MaxLen == 3          \* characters of a configured duration string
maxSize == 10        \* CacheService.maxSize, scaled
FillKeys == 9        \* keys that only fill the cache

\* ------------------------------------------------------- program constants
LockoutSeconds == 300
LockoutThreshold == 5
AccessTokenExpirySeconds == 900
RefreshTokenExpirySeconds == 604800
DefaultExpiresIn == 900
DefaultTtl == 300

\* ------------------------------------------------------------------ inputs
Emails == {"A@x.com", "b@x.com"}          \* as typed by the client
Passwords == {1}
Devices == {"d1", "d2"}
OneDevice == {"d1"}
SessionSteps == {1, AccessTokenExpirySeconds - 1}
LockoutSteps == {1, LockoutSeconds - 1}
WindowSteps == {1, LockoutSeconds}
NoTTL == 0 - 1

\* String.prototype.toLowerCase on the e-mail inputs
toLowerCase(e) == IF e = "A@x.com" THEN "a@x.com" ELSE e

\* bcrypt.hash: injective, never the identity; bcrypt.compare re-hashes the
\* plaintext (with the salt kept in the hash) and compares.
bcryptHash(p) == p + 10
bcryptCompare(p, h) == bcryptHash(p) = h
LoginPasswords == Passwords \cup {bcryptHash(p) : p \in Passwords}
LoginEmails == Emails \cup {toLowerCase(e) : e \in Emails}
WrongPasswords == {2}                     \* never registered, never a hash

VARIABLES
  now,          \* Date.now() in seconds
  ticks,        \* number of clock advances so far
  users,        \* users table: sequence of rows, id = index
  registered,   \* the (email, password) each user row was created from
  tokens,       \* refresh_token table: sequence of rows, id = index
  uuidCount,    \* uuidv4() calls so far: the next jti is uuidCount + 1
  accessTokens, \* access tokens handed to clients
  attempts,     \* Redis keys login:attempts:<email>
  blacklist,    \* Redis keys token:blacklisted:<jti>
  rotated,      \* (refresh token, deviceId) pairs a refresh has succeeded for
  loggedOutRT,  \* (refresh token, deviceId) pairs issued before a logout of the device
  loggedOutAT,  \* access tokens (jti, exp in the future) a logout has returned
                \* for, each with the time of its first logout
  last,         \* the last request and its outcome
  inflight,     \* the requests being handled concurrently, each at an await
  duration,     \* the configured duration string, a sequence of characters
  expiresIn,    \* what parseJwtExpiryToSeconds has returned for it
  cache,        \* CacheService.cache: the entries of the Map, by cache key
  lruKeys,      \* CacheService.lruKeys
  written       \* per key, the last set or delete a caller made

\* the state of the utilities, which no request of the auth module touches
Util == <<duration, expiresIn, cache, lruKeys, written>>
vars == <<now, ticks, users, registered, tokens, uuidCount, accessTokens,
          attempts, blacklist, rotated, loggedOutRT, loggedOutAT, last, inflight,
          Util>>

NoRefresh == [sub |-> 0, deviceId |-> "", iat |-> 0, exp |-> 0, sig |-> "none"]
NoAccess == [sub |-> 0, email |-> "", role |-> "", jti |-> 0, iat |-> 0, exp |-> 0]
ForgedRefresh == [sub |-> 1, deviceId |-> "d1", iat |-> 0,
                  exp |-> RefreshTokenExpirySeconds, sig |-> "forged"]

\* Two request handlers may be in flight at once.  A handler is at rest
\* ("idle", or "done" with its result) or suspended at the await named by pc.
\* overlap: the request of this handler and the request of the other one
\* were in flight at the same time.
Procs == {1, 2}
Idle == [pc |-> "idle", kind |-> "", userId |-> 0, deviceId |-> "",
         tok |-> NoRefresh, jti |-> 0, rt |-> NoRefresh, result |-> "",
         overlap |-> FALSE]

\* The request handled last, its outcome, and what held of it:
\*   "dup"       register: the email had been registered before
\*   "locked"    login: the email had 5 consecutive failures in the window
\*   "matches"   login: the email is the stored email of a user who
\*               registered with this password
\*   "accepted"  login: validatePassword accepts the password for the user
\*               found by this email
\*   "mismatch"  refresh: the deviceId differs from the token's deviceId
\*   "valid"     refresh: the token is accepted with its own deviceId
\*   "same"      refresh: the refresh token returned is the one presented
\*   "wrote"     the request changed the users or the refresh_token table
\* user: that user of a login that "matches"; jti: the jti of the access
\* token returned by a login.
Result(op, res, flags, user, jti) ==
  [op |-> op, result |-> res, flags |-> flags, user |-> user, jti |-> jti]
Flag(name, cond) == IF cond THEN {name} ELSE {}
\* who: whether the run records, with the result r, the session the request
\* was made for: the user it acts for (0: none) and the deviceId it carries
Session(who, r, userId, deviceId) ==
  IF who THEN [op |-> r.op, result |-> r.result, flags |-> r.flags,
               user |-> r.user, jti |-> r.jti,
               userId |-> userId, deviceId |-> deviceId]
  ELSE r
Wrote == Flag("wrote", <<users, tokens>>' # <<users, tokens>>)

\* ------------------------------------------------------------ Redis (keys)
\* A key is present while it has no TTL or its expiry lies in the future.
\* Beside its value (count) and expiry, a counter key records when INCR
\* created it (first), whether every login for its email since then has
\* failed (clean), when a login for its email failed last (lastFail, kept
\* when the key expires), and the count the key held when it expired (was);
\* the program reads none of them.
Live(e) == e.count > 0 /\ (e.expireAt = NoTTL \/ e.expireAt > now)
NoKey == [count |-> 0, expireAt |-> NoTTL, first |-> 0, clean |-> TRUE,
          lastFail |-> NoTTL, was |-> 0]

\* RedisService.increment: INCR creates the key at 1 without a TTL
increment(c, key) ==
  [c EXCEPT ![key] = IF Live(c[key]) THEN [@ EXCEPT !.count = @ + 1]
                     ELSE [count |-> 1, expireAt |-> NoTTL, first |-> now,
                           clean |-> TRUE, lastFail |-> @.lastFail, was |-> @.was]]
\* EXPIRE that leaves the key without a TTL
expireNever(c, key, seconds) == c

\* RedisService.expire: EXPIRE sets the TTL of a present key from now
expire(c, key, seconds) ==
  [c EXCEPT ![key] = IF Live(c[key]) THEN [@ EXCEPT !.expireAt = now + seconds] ELSE @]
\* RedisService.get on a counter key, after parseInt(attempts ?? '0')
getCount(c, key) == IF Live(c[key]) THEN c[key].count ELSE 0

\* RedisService.setEx on token:blacklisted:<jti>
setEx(b, jti, ttl) ==
  {e \in b : e.jti # jti} \cup {[jti |-> jti, expireAt |-> now + ttl]}
\* RedisService.get on token:blacklisted:<jti> (truthy when present)
getBlacklisted(b, jti) == \E e \in b : e.jti = jti /\ e.expireAt > now

TotalAttempts == LET S == {e \in LoginEmails : Live(attempts[e])}
                     Sum[T \in SUBSET LoginEmails] ==
                       IF T = {} THEN 0
                       ELSE LET x == CHOOSE y \in T : TRUE
                            IN attempts[x].count + Sum[T \ {x}]
                 IN Sum[S]

\* ------------------------------------------------------------ UsersService
\* User.prepareData (@BeforeInsert): hash the password, lowercase the email
prepareData(row) ==
  [row EXCEPT !.password = bcryptHash(@), !.email = toLowerCase(@)]

findByEmail(email) == {i \in DOMAIN users : users[i].email = email}

\* The ids of the table are the positions of users; the row of a removed
\* user is replaced by Removed, so that ids are never reused.
Removed == [email |-> "", password |-> 0, role |-> "removed"]
\* UsersService.findOne: TRUE when the row is found, FALSE when it throws
\* NotFoundException
findOne(id) == id \in DOMAIN users /\ users[id] # Removed

validatePassword(userId, pass) ==
  /\ userId \in DOMAIN users
  /\ bcryptCompare(pass, users[userId].password)

\* UsersService.create: "ok", "Conflict" (HttpException 409) or
\* "QueryFailed" (the unique index on users.email rejects the insert)
createRow(email, password) ==
  prepareData([email |-> email, password |-> bcryptHash(password), role |-> "user"])
createOutcome(email, password) ==
  IF findByEmail(email) # {} THEN "Conflict"
  ELSE IF \E i \in DOMAIN users : users[i].email = createRow(email, password).email
       THEN "QueryFailed"
  ELSE "ok"

\* ------------------------------------------------- RefreshTokenRepository
\* the foreign key of RefreshToken.user, onDelete CASCADE: the rows of a
\* removed user go with it
cascade(store, userId) == SelectSeq(store, LAMBDA r : r.userId # userId)

revokeToken(store, tok) ==
  [i \in DOMAIN store |->
     IF store[i].token = tok THEN [store[i] EXCEPT !.isRevoked = TRUE] ELSE store[i]]

\* revokeForDevice with an update that flips isRevoked
revokeForDeviceToggle(store, userId, deviceId) ==
  [i \in DOMAIN store |->
     IF store[i].userId = userId /\ store[i].deviceId = deviceId
     THEN [store[i] EXCEPT !.isRevoked = ~@] ELSE store[i]]

\* revokeForDevice with an update that matches the user's rows of all devices
revokeForDeviceAll(store, userId, deviceId) ==
  [i \in DOMAIN store |->
     IF store[i].userId = userId
     THEN [store[i] EXCEPT !.isRevoked = TRUE] ELSE store[i]]

\* revokeForDevice with an update that matches no row
revokeForDeviceNone(store, userId, deviceId) == store

revokeForDevice(store, userId, deviceId) ==
  [i \in DOMAIN store |->
     IF store[i].userId = userId /\ store[i].deviceId = deviceId
     THEN [store[i] EXCEPT !.isRevoked = TRUE] ELSE store[i]]

findValidTokenAny(store, tok, userId, deviceId) ==
  {i \in DOMAIN store :
     /\ store[i].token = tok
     /\ store[i].userId = userId
     /\ store[i].deviceId = deviceId
     /\ store[i].expiresAt > now}

findValidToken(store, tok, userId, deviceId) ==
  {i \in DOMAIN store :
     /\ store[i].token = tok
     /\ store[i].userId = userId
     /\ store[i].deviceId = deviceId
     /\ ~store[i].isRevoked
     /\ store[i].expiresAt > now}

save(store, row) == Append(store, row)

\* ------------------------------------------------------------ TokenService
\* jwtService.signAsync with the refresh secret: payload {sub, deviceId},
\* iat = now, exp = iat + 7d; no jti
signRefresh(userId, deviceId) ==
  [sub |-> userId, deviceId |-> deviceId, iat |-> now,
   exp |-> now + RefreshTokenExpirySeconds, sig |-> "refresh"]

\* jwtService.signAsync of the access payload {sub, email, role, jti}
signAccess(userId, row, jti) ==
  [sub |-> userId, email |-> row.email, role |-> row.role, jti |-> jti,
   iat |-> now, exp |-> now + AccessTokenExpirySeconds]

generateRefreshToken(store, userId, deviceId) ==
  save(revokeForDevice(store, userId, deviceId),
       [token |-> signRefresh(userId, deviceId), userId |-> userId,
        deviceId |-> deviceId, expiresAt |-> now + RefreshTokenExpirySeconds,
        isRevoked |-> FALSE])

\* jwtService.verifyAsync with the refresh secret: signature and exp
verifyRefresh(tok) == tok.sig = "refresh" /\ now < tok.exp

\* refreshTokens looking the record up by the deviceId inside the token,
\* without comparing it with the deviceId of the request
refreshOutcomeOwnDevice(tok, deviceId) ==
  IF ~verifyRefresh(tok) THEN "InvalidToken"
  ELSE IF findValidToken(tokens, tok, tok.sub, tok.deviceId) = {} THEN "InvalidToken"
  ELSE IF ~findOne(tok.sub) THEN "NotFound"
  ELSE "ok"

\* The checks of TokenService.refreshTokens, in order, on the current state
refreshOutcome(tok, deviceId) ==
  IF ~verifyRefresh(tok) THEN "InvalidToken"
  ELSE IF tok.deviceId # deviceId THEN "InvalidToken"
  ELSE IF findValidToken(tokens, tok, tok.sub, deviceId) = {} THEN "InvalidToken"
  ELSE IF LET i == CHOOSE j \in findValidToken(tokens, tok, tok.sub, deviceId) : TRUE
          IN tokens[i].expiresAt < now THEN "InvalidToken"
  ELSE IF ~findOne(tok.sub) THEN "NotFound"
  ELSE "ok"

\* ---------------------------------------------------------------- time.util
\* A duration string is a sequence of characters; the inputs are all the
\* strings of at most MaxLen characters over digits, the five units and a
\* character that is neither.
Digits == {"0", "1", "5"}
Chars == Digits \cup {"s", "m", "h", "d", "w", "x"}
Durations == UNION {[1..n -> Chars] : n \in 0..MaxLen}
AccessTokenExpiry == <<"1", "5", "m">>
NaN == 0 - 1
NotParsed == 0 - 2

digitValue(c) == CASE c = "0" -> 0 [] c = "1" -> 1 [] c = "5" -> 5
RECURSIVE decimal(_)
decimal(cs) ==
  IF cs = <<>> THEN 0
  ELSE decimal(SubSeq(cs, 1, Len(cs) - 1)) * 10 + digitValue(cs[Len(cs)])

\* parseInt(string, 10) on a string without white space or sign: the value
\* of the longest prefix of digits, whatever follows it; NaN without one
RECURSIVE leadingDigits(_)
leadingDigits(cs) ==
  IF cs = <<>> \/ cs[1] \notin Digits THEN <<>>
  ELSE <<cs[1]>> \o leadingDigits(SubSeq(cs, 2, Len(cs)))
parseInt(cs) == IF leadingDigits(cs) = <<>> THEN NaN ELSE decimal(leadingDigits(cs))

parseDurationToSeconds(dur, defaultSeconds) ==
  IF dur = <<>> THEN defaultSeconds
  ELSE LET unit == dur[Len(dur)]
           value == parseInt(SubSeq(dur, 1, Len(dur) - 1))
       IN IF value = NaN THEN defaultSeconds
          ELSE CASE unit = "s" -> value
                 [] unit = "m" -> value * 60
                 [] unit = "h" -> value * 60 * 60
                 [] unit = "d" -> value * 60 * 60 * 24
                 [] unit = "w" -> value * 60 * 60 * 24 * 7
                 [] OTHER -> defaultSeconds

\* TokenService.parseJwtExpiryToSeconds
parseJwtExpiryToSeconds(expiry) == parseDurationToSeconds(expiry, DefaultExpiresIn)

\* ------------------------------------------------------------- CacheService
\* The map holds maxSize entries at most; the source's 10000 is scaled to the
\* smallest size for which the tenth evicted at a time is one entry.
\* Keys are numbered: key 0 is set with any value and ttl, with or without a
\* namespace, read and deleted; keys 1..FillKeys are set once each, in
\* order, to fill the map.  A cache key is the pair generateKey joins with
\* ':' (no key of the inputs contains one).
Namespaces == {"", "ns"}                 \* "": no namespace given
generateKey(key, namespace) == <<namespace, key>>
ProbeKeys == {generateKey(0, ns) : ns \in Namespaces}
FillerKeys == {generateKey(k, "") : k \in 1..FillKeys}
CacheKeys == ProbeKeys \cup FillerKeys
Values == {"v1", "v2"}
Ttls == {0 - 1, 0, DefaultTtl}
NoItem == [value |-> "null", expiresAt |-> 0, namespace |-> "none"]
NoWrite == [value |-> "null", at |-> 0, ttl |-> 0, kind |-> "none"]
DateNow == now * 1000                    \* Date.now(), in milliseconds

size(c) == Cardinality({k \in CacheKeys : c[k] # NoItem})
without(keys, key) == SelectSeq(keys, LAMBDA k : k # key)
updateLru(keys, key) == Append(without(keys, key), key)
evictCount == (maxSize * 1) \div 10

\* evictIfNeeded: the map and lruKeys it leaves
evictIfNeeded(c, keys) ==
  IF size(c) >= maxSize
  THEN [cache |-> [k \in CacheKeys |->
                     IF \E i \in 1..evictCount : i <= Len(keys) /\ keys[i] = k
                     THEN NoItem ELSE c[k]],
        lruKeys |-> SubSeq(keys, evictCount + 1, Len(keys))]
  ELSE [cache |-> c, lruKeys |-> keys]

\* get: "expired" when the item is there and past expiresAt
expired(item) == item # NoItem /\ item.expiresAt < DateNow

\* ------------------------------------------------------------- AuthService
\* AuthService.validateUser: the user id, or 0 when the attempt fails
validateUser(email, pass) ==
  IF \E i \in findByEmail(email) : validatePassword(i, pass)
  THEN CHOOSE i \in findByEmail(email) : validatePassword(i, pass)
  ELSE 0

\* the counter of the email after increment and expire of a failed attempt
failedAttempt(c, email) ==
  expire(increment(c, email), email, LockoutSeconds)

\* the lock applied only above the threshold
failureKindOver(c, email) ==
  IF getCount(c, email) > LockoutThreshold THEN "AccountLocked"
  ELSE "InvalidCredentials"

\* the exception of a failed attempt, from the counter read back
failureKind(c, email) ==
  IF getCount(c, email) >= LockoutThreshold THEN "AccountLocked"
  ELSE "InvalidCredentials"

\* the blacklist TTL one second short of the token's remaining life
logoutTtlShort(at) == IF at.exp # 0 THEN at.exp - now - 1 ELSE 0

\* AuthService.logout: decoded.exp ? decoded.exp - now : 0
logoutTtl(at) == IF at.exp # 0 THEN at.exp - now ELSE 0

isTokenBlacklisted(at) ==
  IF at.jti = 0 THEN TRUE ELSE getBlacklisted(blacklist, at.jti)

\* The token strings a caller can hand to logout and isTokenBlacklisted:
\* none, a string that is no JWT, or a JWT (decode does not verify it) that
\* the program has issued or that lacks jti, lacks exp, or expires at second 1.
NoJtiAccess == [NoAccess EXCEPT !.sub = 1, !.exp = AccessTokenExpirySeconds]
NoExpAccess == [NoAccess EXCEPT !.sub = 1, !.jti = 99]
StaleAccess == [NoAccess EXCEPT !.sub = 1, !.jti = 98, !.exp = 1]
Bearers ==
  {[form |-> f, at |-> NoAccess] : f \in {"missing", "garbled"}}
  \cup {[form |-> "jwt", at |-> a] :
          a \in accessTokens \cup {NoJtiAccess, NoExpAccess, StaleAccess}}
\* jwtService.decode returns null unless the string is a JWT
decodes(b) == b.form = "jwt"

\* isTokenBlacklisted answering true although the cache lookup was rejected
\* is what the catch does; this one answers false then
isTokenBlacklistedOpen(b, cacheFails) ==
  IF b.form = "missing" THEN TRUE
  ELSE IF ~decodes(b) \/ b.at.jti = 0 THEN TRUE
  ELSE IF cacheFails THEN FALSE
  ELSE getBlacklisted(blacklist, b.at.jti)

\* AuthService.isTokenBlacklisted on a token string; cacheFails: the
\* promise of redisService.get is rejected
isTokenBlacklistedOf(b, cacheFails) ==
  IF b.form = "missing" THEN TRUE
  ELSE IF ~decodes(b) \/ b.at.jti = 0 THEN TRUE
  ELSE IF cacheFails THEN TRUE
  ELSE isTokenBlacklisted(b.at)

\* AuthService.logout on a token string: how the call ends.  decoded.exp
\* on null is a TypeError; a rejected setEx is not caught.
logoutOutcome(b, cacheFails) ==
  IF ~decodes(b) THEN "TypeError"
  ELSE IF logoutTtl(b.at) > 0 /\ b.at.jti # 0 /\ cacheFails THEN "CacheError"
  ELSE "ok"

InitAuth ==
  /\ now = 0
  /\ ticks = 0
  /\ users = <<>>
  /\ registered = <<>>
  /\ tokens = <<>>
  /\ uuidCount = 0
  /\ accessTokens = {}
  /\ attempts = [e \in LoginEmails |-> NoKey]
  /\ blacklist = {}
  /\ rotated = {}
  /\ loggedOutRT = {}
  /\ loggedOutAT = {}
  /\ last = Result("none", "none", {}, 0, 0)
  /\ inflight = [p \in Procs |-> Idle]

\* The utilities at start: the duration string is the default of
\* jwt.config.ts, nothing parsed yet, the cache empty.
InitUtil ==
  /\ duration = AccessTokenExpiry
  /\ expiresIn = NotParsed
  /\ cache = [k \in CacheKeys |-> NoItem]
  /\ lruKeys = <<>>
  /\ written = [k \in CacheKeys |-> NoWrite]

Init == InitAuth /\ InitUtil

\* The clock advances; Redis drops the keys whose TTL has run out.
TickBy(steps) ==
  \E d \in steps :
    /\ ticks < MaxTicks
    /\ now' = now + d
    /\ ticks' = ticks + 1
    /\ attempts' = [e \in LoginEmails |->
                      IF attempts[e].expireAt # NoTTL /\ attempts[e].expireAt <= now + d
                      THEN [NoKey EXCEPT !.lastFail = attempts[e].lastFail,
                                         !.was = attempts[e].count]
                      ELSE attempts[e]]
    /\ blacklist' = {e \in blacklist : e.expireAt > now + d}
    /\ UNCHANGED <<users, registered, tokens, uuidCount, accessTokens,
                   rotated, loggedOutRT, loggedOutAT, last, inflight,
                   Util>>

Tick == TickBy(SessionSteps)
TickLockout == TickBy(LockoutSteps)

\* TokenService.generateTokens for the user row `row` with id userId:
\* a fresh jti, the access token, and generateRefreshToken on `store`
generateTokens(store, userId, row, deviceId) ==
  /\ Len(store) < MaxRecords
  /\ uuidCount' = uuidCount + 1
  /\ accessTokens' = accessTokens \cup {signAccess(userId, row, uuidCount + 1)}
  /\ tokens' = generateRefreshToken(store, userId, deviceId)

\* POST /auth/register: UsersService.create, then generateTokens
RegisterFor(emails, devices, who) ==
  \E email \in emails, password \in Passwords, deviceId \in devices :
    LET out == createOutcome(email, password)
        row == createRow(email, password)
        dup == Flag("dup", \E i \in DOMAIN registered : registered[i].email = email)
    IN /\ IF out = "ok"
          THEN /\ users' = Append(users, row)
               /\ registered' = Append(registered, [email |-> email, password |-> password])
               /\ generateTokens(tokens, Len(users) + 1, row, deviceId)
          ELSE UNCHANGED <<users, registered, tokens, uuidCount, accessTokens>>
       /\ last' = Session(who, Result("register", out, dup \cup Wrote, 0, 0),
                          IF out = "ok" THEN Len(users) + 1 ELSE 0, deviceId)
       /\ UNCHANGED <<now, ticks, attempts, blacklist, rotated, loggedOutRT,
                      loggedOutAT, inflight,
                   Util>>

RegisterAs(emails, devices) == RegisterFor(emails, devices, FALSE)
RegisterFrom(devices) == RegisterAs(Emails, devices)
Register == RegisterFrom(Devices)

\* POST /auth/login: validateUser, then generateTokens.  cap bounds the
\* failed attempts counted at one time.  fault names the Redis call of this
\* request that is rejected because the cache is unavailable ("none": the
\* cache answers).
LoginFor(emails, passwords, cap, devices, faults, who) ==
  \E email \in emails, password \in passwords, deviceId \in devices,
     fault \in faults :
    LET userId == validateUser(email, password)
        owners == {i \in DOMAIN users : /\ users[i].email = email
                                        /\ registered[i].password = password}
        owner == IF owners = {} THEN 0 ELSE CHOOSE i \in owners : TRUE
        flags ==
          Flag("locked", /\ getCount(attempts, email) >= LockoutThreshold
                         /\ attempts[email].clean
                         /\ now - attempts[email].first < LockoutSeconds)
          \cup Flag("matches", owner # 0)
          \cup Flag("accepted",
                    \E i \in findByEmail(email) : validatePassword(i, password))
          \cup Flag("nouser", \A i \in DOMAIN users : users[i].email # email)
          \cup Flag("variant",
                    \E i \in DOMAIN users :
                       /\ users[i].email = toLowerCase(email)
                       /\ bcryptCompare(password, users[i].password))
          \cup Flag("fifth", /\ Live(attempts[email])
                             /\ attempts[email].count + 1 >= LockoutThreshold)
          \cup Flag("elapsed", /\ attempts[email].lastFail # NoTTL
                               /\ now >= attempts[email].lastFail + LockoutSeconds)
          \cup Flag("wasLocked", attempts[email].was >= LockoutThreshold)
          \cup Flag("one", attempts'[email].count = 1)
          \cup Flag("cacheDown", fault # "none")
        counted == IF fault = "increment" THEN attempts
                   ELSE IF fault = "expire" THEN increment(attempts, email)
                   ELSE failedAttempt(attempts, email)
    IN /\ UNCHANGED <<now, ticks, users, registered, blacklist, rotated,
                      loggedOutRT, loggedOutAT, inflight,
                   Util>>
       /\ IF userId # 0
          THEN /\ generateTokens(tokens, userId, users[userId], deviceId)
               /\ attempts' = [attempts EXCEPT ![email] =
                                 IF Live(@) THEN [@ EXCEPT !.clean = FALSE] ELSE @]
               /\ last' = Session(who, Result("login", "ok", flags \cup Wrote, owner,
                                               uuidCount + 1),
                                  userId, deviceId)
          ELSE /\ TotalAttempts < cap
               /\ attempts' = [counted EXCEPT ![email].lastFail = now]
               /\ UNCHANGED <<tokens, uuidCount, accessTokens>>
               /\ last' = Session(who,
                                  Result("login",
                                         IF fault # "none" THEN "CacheError"
                                         ELSE failureKind(counted, email),
                                         flags \cup Wrote, owner, 0),
                                  userId, deviceId)

LoginAs(emails, passwords, cap, devices, faults) ==
  LoginFor(emails, passwords, cap, devices, faults, FALSE)

LoginWith(cap, devices) ==
  LoginAs(LoginEmails, LoginPasswords, cap, devices, {"none"})

\* In the runs about sessions only the logins that succeed are taken: a
\* failed login touches nothing but its counter.
Login == LoginWith(0, Devices)

\* POST /auth/refresh: TokenService.refreshTokens.  track: whether the run
\* records the pairs refreshed and logged out (rotated, loggedOutRT).
\* extra: the tokens presented that no record holds.  detail: whether the
\* result records what held of the token when it was presented (signed,
\* stored, revoked).
RefreshFor(extra, track, detail, who) ==
  \E tok \in {tokens[i].token : i \in DOMAIN tokens} \cup extra,
     deviceId \in Devices :
    LET out == refreshOutcome(tok, deviceId)
        flags == Flag("mismatch", tok.deviceId # deviceId)
                 \cup Flag("valid", refreshOutcome(tok, tok.deviceId) = "ok")
                 \cup Flag("same", /\ out = "ok"
                                   /\ tokens'[Len(tokens')].token = tok)
                 \cup Flag("signed", detail /\ tok.sig = "refresh" /\ now < tok.exp)
                 \cup Flag("stored", \E i \in DOMAIN tokens :
                                        /\ detail
                                        /\ tokens[i].token = tok
                                        /\ tokens[i].userId = tok.sub
                                        /\ tokens[i].deviceId = deviceId
                                        /\ ~tokens[i].isRevoked
                                        /\ now < tokens[i].expiresAt)
                 \cup Flag("revoked", \E i \in DOMAIN tokens :
                                         /\ detail
                                         /\ tokens[i].token = tok
                                         /\ tokens[i].isRevoked)
    IN /\ UNCHANGED <<now, ticks, users, registered, attempts, blacklist,
                      loggedOutRT, loggedOutAT, inflight,
                   Util>>
       /\ IF out = "ok"
          THEN /\ generateTokens(revokeToken(tokens, tok), tok.sub, users[tok.sub], deviceId)
               /\ rotated' = IF track THEN rotated \cup {<<tok, deviceId>>} ELSE rotated
          ELSE UNCHANGED <<tokens, uuidCount, accessTokens, rotated>>
       /\ last' = Session(who, Result("refresh", out, flags \cup Wrote, 0, 0),
                          tok.sub, deviceId)

RefreshOf(extra, track, detail) == RefreshFor(extra, track, detail, FALSE)

RefreshWith(track) == RefreshOf({ForgedRefresh}, track, FALSE)

RefreshTokens == RefreshWith(FALSE)

\* POST /auth/logout: AuthController.logout passes the id of the bearer
\* token's user, the bearer token and the body's deviceId to AuthService.logout.
\* trackRT, trackAT: whether the run records loggedOutRT, loggedOutAT.
LogoutFor(devices, trackRT, trackAT, who) ==
  \E at \in accessTokens, deviceId \in devices :
    LET userId == at.sub
        ttl == logoutTtl(at)
    IN /\ blacklist' = IF ttl > 0 /\ at.jti # 0
                       THEN setEx(blacklist, at.jti, ttl) ELSE blacklist
       /\ tokens' = revokeForDevice(tokens, userId, deviceId)
       /\ loggedOutAT' = IF /\ trackAT /\ at.jti # 0 /\ at.exp > now
                            /\ \A e \in loggedOutAT : e.token # at
                         THEN loggedOutAT \cup {[token |-> at, since |-> now]}
                         ELSE loggedOutAT
       /\ loggedOutRT' =
            IF trackRT
            THEN loggedOutRT \cup
                   {<<tokens[i].token, deviceId>> :
                      i \in {j \in DOMAIN tokens : /\ tokens[j].userId = userId
                                                   /\ tokens[j].deviceId = deviceId}}
            ELSE loggedOutRT
       /\ UNCHANGED <<now, ticks, users, registered, uuidCount, accessTokens,
                      attempts, rotated, inflight,
                   Util>>
       /\ last' = Session(who, Result("logout", "ok", Wrote, 0, 0), userId, deviceId)

LogoutWith(devices, trackRT, trackAT) == LogoutFor(devices, trackRT, trackAT, FALSE)
Logout == LogoutWith(Devices, FALSE, FALSE)

\* AuthService.logout(userId, accessToken, deviceId) for any token string,
\* with the cache answering or not
LogoutCall ==
  \E b \in Bearers, userId \in DOMAIN users, deviceId \in OneDevice,
     cacheFails \in BOOLEAN :
    LET out == logoutOutcome(b, cacheFails)
        flags ==
          Flag("missing", b.form = "missing")
          \cup Flag("garbled", b.form = "garbled")
          \cup Flag("nojti", b.form = "jwt" /\ b.at.jti = 0)
          \cup Flag("noexp", b.form = "jwt" /\ b.at.exp = 0)
          \cup Flag("expired", b.form = "jwt" /\ b.at.exp # 0 /\ b.at.exp <= now)
          \cup Flag("cacheDown", cacheFails)
          \cup Flag("live", \E i \in DOMAIN tokens :
                              /\ tokens[i].userId = userId
                              /\ tokens[i].deviceId = deviceId
                              /\ ~tokens[i].isRevoked)
          \cup Flag("revoked", \A i \in DOMAIN tokens' :
                                 (tokens'[i].userId = userId
                                  /\ tokens'[i].deviceId = deviceId)
                                 => tokens'[i].isRevoked)
    IN /\ blacklist' = IF /\ decodes(b) /\ logoutTtl(b.at) > 0 /\ b.at.jti # 0
                          /\ ~cacheFails
                       THEN setEx(blacklist, b.at.jti, logoutTtl(b.at))
                       ELSE blacklist
       /\ tokens' = IF out = "ok" THEN revokeForDevice(tokens, userId, deviceId)
                    ELSE tokens
       /\ UNCHANGED <<now, ticks, users, registered, uuidCount, accessTokens,
                      attempts, rotated, loggedOutRT, loggedOutAT, inflight,
                   Util>>
       /\ last' = Result("logout", out, flags \cup Wrote, 0, 0)

\* JwtStrategy.validate asking AuthService.isTokenBlacklisted about a token
\* string, with the cache answering or not
CheckBlacklist ==
  \E b \in Bearers, cacheFails \in BOOLEAN :
    /\ last' = Result("check",
                      IF isTokenBlacklistedOf(b, cacheFails)
                      THEN "blacklisted" ELSE "clear",
                      Flag("missing", b.form = "missing")
                      \cup Flag("garbled", b.form = "garbled")
                      \cup Flag("nojti", b.form = "jwt" /\ b.at.jti = 0)
                      \cup Flag("cacheDown", cacheFails)
                      \cup Flag("listed", \E e \in blacklist :
                                            /\ b.form = "jwt"
                                            /\ e.jti = b.at.jti
                                            /\ e.expireAt > now),
                      0, 0)
    /\ UNCHANGED <<now, ticks, users, registered, tokens, uuidCount,
                   accessTokens, attempts, blacklist, rotated, loggedOutRT,
                   loggedOutAT, inflight,
                   Util>>

Next == Tick \/ Register \/ Login \/ RefreshTokens \/ Logout


Spec == Init /\ [][Next]_vars

\* The runs about replayed refresh tokens: the same requests, recording the
\* pairs a refresh has succeeded for and the pairs logged out
RefreshTracked == RefreshWith(TRUE)
LogoutTracked == LogoutWith(Devices, TRUE, FALSE)
NextReplay == Tick \/ Register \/ Login \/ RefreshTracked \/ LogoutTracked
SpecReplay == Init /\ [][NextReplay]_vars

\* The runs about the blacklist: tokens are issued by register and login and
\* logged out, all from one device, and the run records the access tokens
\* logged out with the time of their first logout
RegisterOne == RegisterFrom(OneDevice)
LoginOne == LoginWith(0, OneDevice)
LogoutListed == LogoutWith(OneDevice, FALSE, TRUE)
NextBlacklist == Tick \/ RegisterOne \/ LoginOne \/ LogoutListed
SpecBlacklist == Init /\ [][NextBlacklist]_vars

\* The runs about token strings: one account, one device; logout and the
\* blacklist check get any token string and may find the cache unavailable
OneEmail == {"b@x.com"}
RegisterB == RegisterAs(OneEmail, OneDevice)
NextTokens == Tick \/ RegisterB \/ LogoutCall \/ CheckBlacklist
SpecTokens == Init /\ [][NextTokens]_vars

\* The runs about logins with the cache unavailable: one account, one
\* device; each login may find one of its Redis calls rejected
LoginFaulty ==
  LoginAs(OneEmail, WrongPasswords \cup {bcryptHash(p) : p \in Passwords},
          MaxAttempts, OneDevice, {"none", "increment", "expire", "get"})
NextFaults == Tick \/ RegisterB \/ LoginFaulty
SpecFaults == Init /\ [][NextFaults]_vars

\* ---------------------------------------------- two requests in flight
\* The handlers of login and refresh, cut at their awaits on the table; the
\* requests all come from one device.
ConcDevices == {"d1"}
AtRest(p) == inflight[p].pc \in {"idle", "done"}
Finish(p, result) ==
  inflight' = [inflight EXCEPT ![p] = [@ EXCEPT !.pc = "done", !.result = result]]
\* handler p starts on request r
Start(p, r) ==
  inflight' = [q \in Procs |->
                 IF q = p THEN [r EXCEPT !.overlap = \E o \in Procs \ {p} : ~AtRest(o)]
                 ELSE [inflight[q] EXCEPT !.overlap = ~AtRest(q)]]
Shared == <<now, ticks, users, registered, attempts, blacklist, rotated,
            loggedOutRT, loggedOutAT, last, Util>>

\* AuthService.login up to the first await of generateRefreshToken:
\* validateUser has succeeded, generateTokens has drawn its jti
BeginLogin(p) ==
  \E email \in LoginEmails, password \in LoginPasswords, deviceId \in ConcDevices :
    /\ AtRest(p)
    /\ validateUser(email, password) # 0
    /\ Start(p, [Idle EXCEPT !.pc = "revokeForDevice", !.kind = "login",
                              !.userId = validateUser(email, password),
                              !.deviceId = deviceId, !.jti = uuidCount + 1])
    /\ uuidCount' = uuidCount + 1
    /\ UNCHANGED <<tokens, accessTokens>>
    /\ UNCHANGED Shared

\* TokenService.refreshTokens up to findValidToken: verifyAsync and the
\* device check
BeginRefresh(p) ==
  \E tok \in {tokens[i].token : i \in DOMAIN tokens}, deviceId \in ConcDevices :
    /\ AtRest(p)
    /\ Start(p, IF verifyRefresh(tok) /\ tok.deviceId = deviceId
                 THEN [Idle EXCEPT !.pc = "findValidToken", !.kind = "refresh",
                                   !.userId = tok.sub, !.deviceId = deviceId,
                                   !.tok = tok]
                 ELSE [Idle EXCEPT !.pc = "done", !.kind = "refresh",
                                   !.userId = tok.sub, !.deviceId = deviceId,
                                   !.tok = tok, !.result = "InvalidToken"])
    /\ UNCHANGED <<tokens, uuidCount, accessTokens>>
    /\ UNCHANGED Shared

\* await findValidToken and the expiresAt check
FindValid(p) ==
  LET r == inflight[p]
      found == findValidToken(tokens, r.tok, r.userId, r.deviceId)
  IN /\ r.pc = "findValidToken"
     /\ IF found = {} THEN Finish(p, "InvalidToken")
        ELSE inflight' = [inflight EXCEPT ![p] = [@ EXCEPT !.pc = "findOne"]]
     /\ UNCHANGED <<tokens, uuidCount, accessTokens>>
     /\ UNCHANGED Shared

\* await usersService.findOne, which throws NotFoundException itself: the
\* test of its result that follows never sees an absent user
FindUser(p) ==
  LET r == inflight[p]
  IN /\ r.pc = "findOne"
     /\ IF findOne(r.userId)
        THEN inflight' = [inflight EXCEPT ![p] = [@ EXCEPT !.pc = "revokeToken"]]
        ELSE Finish(p, "NotFound")
     /\ UNCHANGED <<tokens, uuidCount, accessTokens>>
     /\ UNCHANGED Shared

\* await revokeToken; generateTokens starts and draws its jti
RevokeOld(p) ==
  LET r == inflight[p]
  IN /\ r.pc = "revokeToken"
     /\ tokens' = revokeToken(tokens, r.tok)
     /\ uuidCount' = uuidCount + 1
     /\ inflight' = [inflight EXCEPT ![p] =
                       [@ EXCEPT !.pc = "revokeForDevice", !.jti = uuidCount + 1]]
     /\ UNCHANGED accessTokens
     /\ UNCHANGED Shared

\* generateRefreshToken: await revokeForDevice
RevokeDevice(p) ==
  LET r == inflight[p]
  IN /\ r.pc = "revokeForDevice"
     /\ tokens' = revokeForDevice(tokens, r.userId, r.deviceId)
     /\ inflight' = [inflight EXCEPT ![p] = [@ EXCEPT !.pc = "signAsync"]]
     /\ UNCHANGED <<uuidCount, accessTokens>>
     /\ UNCHANGED Shared

\* generateRefreshToken: expiresAt and await signAsync
SignRefresh(p) ==
  LET r == inflight[p]
  IN /\ r.pc = "signAsync"
     /\ inflight' = [inflight EXCEPT ![p] =
                       [@ EXCEPT !.pc = "save", !.rt = signRefresh(r.userId, r.deviceId)]]
     /\ UNCHANGED <<tokens, uuidCount, accessTokens>>
     /\ UNCHANGED Shared

\* generateRefreshToken: await save; the handler returns the pair.  The
\* insert of a row whose user is gone breaks the foreign key ("QueryFailed").
SaveToken(p) ==
  LET r == inflight[p]
  IN /\ r.pc = "save"
     /\ Len(tokens) < MaxConcRecords
     /\ IF findOne(r.userId)
        THEN /\ tokens' = save(tokens, [token |-> r.rt, userId |-> r.userId,
                                         deviceId |-> r.deviceId, expiresAt |-> r.rt.exp,
                                         isRevoked |-> FALSE])
             /\ accessTokens' = accessTokens
                                  \cup {signAccess(r.userId, users[r.userId], r.jti)}
             /\ Finish(p, "ok")
        ELSE /\ UNCHANGED <<tokens, accessTokens>>
             /\ Finish(p, "QueryFailed")
     /\ UNCHANGED uuidCount
     /\ UNCHANGED Shared

Handle == \E p \in Procs : \/ BeginLogin(p) \/ BeginRefresh(p)
                           \/ FindValid(p) \/ FindUser(p) \/ RevokeOld(p)
                           \/ RevokeDevice(p) \/ SignRefresh(p) \/ SaveToken(p)
RegisterConc == RegisterFrom(ConcDevices)
NextConc == Tick \/ RegisterConc \/ Handle
SpecConc == Init /\ [][NextConc]_vars

\* DELETE /users/:id: UsersService.remove; the database deletes the user's
\* refresh token rows with it
RemoveUser ==
  \E id \in DOMAIN users :
    /\ findOne(id)
    /\ Cardinality({i \in DOMAIN users : users[i] = Removed}) < MaxRemovals
    /\ users' = [users EXCEPT ![id] = Removed]
    /\ registered' = [registered EXCEPT ![id] = [email |-> "", password |-> 0]]
    /\ tokens' = cascade(tokens, id)
    /\ last' = Result("remove", "ok", Wrote, id, 0)
    /\ UNCHANGED <<now, ticks, uuidCount, accessTokens, attempts, blacklist,
                   rotated, loggedOutRT, loggedOutAT, inflight,
                   Util>>

\* The runs about a user removed while a refresh is in flight: one handler
\* refreshing, step by step, and removals between its steps
OneProc == {1}
HandleRefresh == \E p \in OneProc : \/ BeginRefresh(p) \/ FindValid(p) \/ FindUser(p)
                                    \/ RevokeOld(p) \/ RevokeDevice(p)
                                    \/ SignRefresh(p) \/ SaveToken(p)
NextRemoval == RegisterConc \/ RemoveUser \/ HandleRefresh
SpecRemoval == Init /\ [][NextRemoval]_vars

\* An awaited call of generateRefreshToken rejects: the database refuses the
\* update or the insert, or signAsync throws.  Neither generateRefreshToken
\* nor refreshTokens catches it and no transaction spans the calls, so the
\* handler ends with the error and what was written before stays written.
StoreFails(p) ==
  LET r == inflight[p]
  IN /\ r.pc \in {"revokeForDevice", "signAsync", "save"}
     /\ Finish(p, "StoreError")
     /\ UNCHANGED <<tokens, uuidCount, accessTokens>>
     /\ UNCHANGED Shared

\* The runs about a refresh that fails while the new pair is issued: one
\* handler refreshing, step by step, each await of the issue able to reject
HandleFailing == \E p \in OneProc : \/ BeginRefresh(p) \/ FindValid(p) \/ FindUser(p)
                                    \/ RevokeOld(p) \/ RevokeDevice(p)
                                    \/ SignRefresh(p) \/ SaveToken(p)
                                    \/ StoreFails(p)
NextFailure == RegisterConc \/ HandleFailing
SpecFailure == Init /\ [][NextFailure]_vars

\* The runs about credentials and the lockout: registrations and logins from
\* one device, failed logins counted, and the clock
LoginCounted == LoginWith(MaxAttempts, OneDevice)
NextLogin == TickLockout \/ RegisterOne \/ LoginCounted
SpecLogin == Init /\ [][NextLogin]_vars

\* The runs about the lockout window: one account and one email nobody
\* registered, logins that fail or that the account accepts, and a clock
\* that can let the window pass
TwoEmails == {"a@x.com", "b@x.com"}
TickWindow == TickBy(WindowSteps)
LoginWindow ==
  LoginAs(TwoEmails, WrongPasswords \cup {bcryptHash(p) : p \in Passwords},
          MaxAttempts, OneDevice, {"none"})
NextWindow == TickWindow \/ RegisterB \/ LoginWindow
SpecWindow == Init /\ [][NextWindow]_vars

\* The runs about which refresh requests are accepted: one account on one
\* device, requests naming either device, a clock that can pass the refresh
\* token's lifetime, and two tokens no record holds: one with a bad signature
\* and one the service signed whose record is not in the table
OrphanRefresh == [sub |-> 1, deviceId |-> "d2", iat |-> 0,
                  exp |-> RefreshTokenExpirySeconds, sig |-> "refresh"]
LifetimeSteps == {1, RefreshTokenExpirySeconds}
TickLifetime == TickBy(LifetimeSteps)
LoginB == LoginAs(OneEmail, {bcryptHash(p) : p \in Passwords}, 0, OneDevice, {"none"})
RefreshAny == RefreshOf({ForgedRefresh, OrphanRefresh}, FALSE, TRUE)
LogoutB == LogoutWith(OneDevice, FALSE, FALSE)
NextRefresh == TickLifetime \/ RegisterB \/ LoginB \/ RefreshAny \/ LogoutB
SpecRefresh == Init /\ [][NextRefresh]_vars

\* The runs about revoking a device's session: accounts on two devices,
\* refreshes, and TokenService.revokeRefreshTokensForDevice called for any
\* user id and device, whatever records there are.  The result names the
\* device among its flags, with "none" (the pair had no record) and
\* "settled" (the pair had no record that was not revoked).
UserIds == {1, 2}
RevokeSession ==
  \E userId \in UserIds, deviceId \in Devices :
    LET rows == {i \in DOMAIN tokens : /\ tokens[i].userId = userId
                                       /\ tokens[i].deviceId = deviceId}
        flags == {deviceId} \cup Flag("none", rows = {})
                 \cup Flag("settled", \A i \in rows : tokens[i].isRevoked)
    IN /\ tokens' = revokeForDevice(tokens, userId, deviceId)
       /\ UNCHANGED <<now, ticks, users, registered, uuidCount, accessTokens,
                      attempts, blacklist, rotated, loggedOutRT, loggedOutAT,
                      inflight,
                   Util>>
       /\ last' = Result("revoke", "ok", flags \cup Wrote, userId, 0)
NextRevoke == Register \/ RefreshTokens \/ RevokeSession
SpecRevoke == Init /\ [][NextRevoke]_vars

\* The runs about the sessions of several users and devices: each request
\* records the session it was made for
RegisterSession == RegisterFor(Emails, Devices, TRUE)
LoginSession == LoginFor(LoginEmails, LoginPasswords, 0, Devices, {"none"}, TRUE)
RefreshSession == RefreshFor({ForgedRefresh}, FALSE, FALSE, TRUE)
LogoutSession == LogoutFor(Devices, FALSE, FALSE, TRUE)
NextSessions == RegisterSession \/ LoginSession \/ RefreshSession \/ LogoutSession
SpecSessions == Init /\ [][NextSessions]_vars

\* The runs about the configured duration: any duration string, and
\* generateTokens computing the expiresIn it reports
InitDuration ==
  /\ InitAuth
  /\ duration \in Durations
  /\ expiresIn = NotParsed
  /\ cache = [k \in CacheKeys |-> NoItem]
  /\ lruKeys = <<>>
  /\ written = [k \in CacheKeys |-> NoWrite]
ReportExpiresIn ==
  /\ expiresIn = NotParsed
  /\ expiresIn' = parseJwtExpiryToSeconds(duration)
  /\ UNCHANGED <<now, ticks, users, registered, tokens, uuidCount, accessTokens,
                 attempts, blacklist, rotated, loggedOutRT, loggedOutAT, last,
                 inflight, duration, cache, lruKeys, written>>
NextDuration == ReportExpiresIn
SpecDuration == InitDuration /\ [][NextDuration]_vars

\* ------------------------------------------------------ guarded requests
AuthVars == <<users, registered, tokens, uuidCount, accessTokens, attempts,
              blacklist, rotated, loggedOutRT, loggedOutAT, inflight>>
\* jwt verification of an access token the program has issued: the
\* signature is good, the token is refused from its exp on
verifyAccess(at) == now < at.exp

\* JwtStrategy.validate behind the passport JwtAuthGuard
passportGuard(at) ==
  IF ~verifyAccess(at) THEN "Unauthorized"
  ELSE IF isTokenBlacklisted(at) THEN "Unauthorized"
  ELSE "ok"

\* JwtAuthGuard.canActivate of common/guards; withUsers: a UsersService
\* was injected
commonGuard(at, withUsers) ==
  IF ~verifyAccess(at) THEN "Unauthorized"
  ELSE IF withUsers /\ ~findOne(at.sub) THEN "NotFound"
  ELSE "ok"

\* A request with a bearer token to a guarded route.  "loggedOut": a logout
\* has returned for the token, which has not expired.
GuardFlags(at) ==
  Flag("loggedOut", \E e \in loggedOutAT : e.token = at /\ now < at.exp)
  \cup Flag("listed", getBlacklisted(blacklist, at.jti))
PassportRequest ==
  \E at \in accessTokens :
    /\ last' = Result("request", passportGuard(at), {"passport"} \cup GuardFlags(at),
                      at.sub, at.jti)
    /\ UNCHANGED <<now, ticks>>
    /\ UNCHANGED AuthVars
    /\ UNCHANGED Util
TaskRequest ==
  \E at \in accessTokens, withUsers \in BOOLEAN :
    /\ last' = Result("request", commonGuard(at, withUsers),
                      {"common"} \cup GuardFlags(at), at.sub, at.jti)
    /\ UNCHANGED <<now, ticks>>
    /\ UNCHANGED AuthVars
    /\ UNCHANGED Util

\* The runs about guarded routes: one device, logins, logouts recorded, and
\* requests through either guard
NextGuards == Tick \/ RegisterOne \/ LoginOne \/ LogoutListed \/ PassportRequest
              \/ TaskRequest
SpecGuards == Init /\ [][NextGuards]_vars

\* ------------------------------------------------------- CacheService calls
\* The result of a call, with the key it was for and when it was made
CacheResult(op, res, key) ==
  [op |-> op, result |-> res, flags |-> {}, user |-> 0, jti |-> 0, key |-> key,
   at |-> DateNow]

\* CacheService.set
SetKey(cacheKey, value, ttlSeconds) ==
  LET ev == evictIfNeeded(cache, lruKeys)
  IN /\ cache' = [ev.cache EXCEPT ![cacheKey] =
                     [value |-> value, expiresAt |-> DateNow + ttlSeconds * 1000,
                      namespace |-> cacheKey[1]]]
     /\ lruKeys' = updateLru(ev.lruKeys, cacheKey)
     /\ written' = [k \in CacheKeys |->
                      IF k = cacheKey
                      THEN [value |-> value, at |-> DateNow, ttl |-> ttlSeconds,
                            kind |-> "set"]
                      ELSE written[k]]
     /\ last' = CacheResult("cacheSet", "ok", cacheKey)
     /\ UNCHANGED <<now, ticks, duration, expiresIn>>
     /\ UNCHANGED AuthVars
SetProbeOf(values, ttls) ==
  \E cacheKey \in ProbeKeys, value \in values, ttlSeconds \in ttls :
    SetKey(cacheKey, value, ttlSeconds)
SetProbe == SetProbeOf(Values, Ttls)
SetFiller ==
  \E cacheKey \in FillerKeys :
    /\ written[cacheKey] = NoWrite
    /\ \A k \in FillerKeys : k[2] < cacheKey[2] => written[k] # NoWrite
    /\ SetKey(cacheKey, "v1", DefaultTtl)

\* CacheService.get
CacheGet ==
  \E cacheKey \in ProbeKeys :
    LET item == cache[cacheKey]
    IN /\ IF item = NoItem
          THEN /\ UNCHANGED <<cache, lruKeys>>
               /\ last' = CacheResult("cacheGet", "null", cacheKey)
          ELSE IF expired(item)
          THEN /\ cache' = [cache EXCEPT ![cacheKey] = NoItem]
               /\ UNCHANGED lruKeys
               /\ last' = CacheResult("cacheGet", "null", cacheKey)
          ELSE /\ lruKeys' = updateLru(lruKeys, cacheKey)
               /\ UNCHANGED cache
               /\ last' = CacheResult("cacheGet", item.value, cacheKey)
       /\ UNCHANGED <<now, ticks, duration, expiresIn, written>>
       /\ UNCHANGED AuthVars

\* CacheService.delete
CacheDelete ==
  \E cacheKey \in ProbeKeys :
    /\ cache' = [cache EXCEPT ![cacheKey] = NoItem]
    /\ lruKeys' = IF cache[cacheKey] # NoItem THEN without(lruKeys, cacheKey)
                  ELSE lruKeys
    /\ written' = [written EXCEPT ![cacheKey] = [NoWrite EXCEPT !.kind = "delete"]]
    /\ last' = CacheResult("cacheDelete",
                           IF cache[cacheKey] # NoItem THEN "true" ELSE "false",
                           cacheKey)
    /\ UNCHANGED <<now, ticks, duration, expiresIn>>
    /\ UNCHANGED AuthVars

\* CacheService.clear: the entries of a namespace, or all of them
CacheClear ==
  \E namespace \in Namespaces :
    LET gone == {k \in CacheKeys :
                   /\ cache[k] # NoItem
                   /\ namespace # "" => cache[k].namespace = namespace}
    IN /\ cache' = [k \in CacheKeys |-> IF k \in gone THEN NoItem ELSE cache[k]]
       /\ lruKeys' = IF namespace = "" THEN <<>> ELSE lruKeys
       /\ written' = [k \in CacheKeys |->
                        IF k \in gone THEN [NoWrite EXCEPT !.kind = "delete"]
                        ELSE written[k]]
       /\ last' = CacheResult("cacheClear", "ok", <<namespace, 0>>)
       /\ UNCHANGED <<now, ticks, duration, expiresIn>>
       /\ UNCHANGED AuthVars

\* CacheService.cleanupExpired, run by the interval timer
CleanupExpired ==
  /\ cache' = [k \in CacheKeys |-> IF expired(cache[k]) THEN NoItem ELSE cache[k]]
  /\ last' = CacheResult("cacheCleanup", "ok", <<"", 0>>)
  /\ UNCHANGED <<now, ticks, duration, expiresIn, lruKeys, written>>
  /\ UNCHANGED AuthVars

\* The runs about what get returns: set, get and delete of key 0, and a
\* clock that can pass the default ttl
CacheSteps == {1, DefaultTtl + 1}
TickCache == TickBy(CacheSteps)
NextCache == TickCache \/ SetProbe \/ CacheGet \/ CacheDelete
SpecCache == Init /\ [][NextCache]_vars

\* The runs about the size of the map: every call, keys enough to fill the
\* map, one value, and entries that are stale at once or live for the
\* default ttl, which does not pass
OneValue == {"v1"}
SizeTtls == {0 - 1, DefaultTtl}
SetProbeSized == SetProbeOf(OneValue, SizeTtls)
NextCacheSize == SetProbeSized \/ SetFiller \/ CacheGet \/ CacheDelete
                 \/ CacheClear \/ CleanupExpired
SpecCacheSize == Init /\ [][NextCacheSize]_vars

\* ================================================================== claims
LiveRows(userId, deviceId) ==
  {i \in DOMAIN tokens : /\ tokens[i].userId = userId
                         /\ tokens[i].deviceId = deviceId
                         /\ ~tokens[i].isRevoked}
BothDone(kind) ==
  /\ \A p \in Procs : /\ inflight[p].pc = "done"
                       /\ inflight[p].kind = kind
                       /\ inflight[p].result = "ok"
                       /\ inflight[p].overlap
  /\ inflight[1].userId = inflight[2].userId
  /\ inflight[1].deviceId = inflight[2].deviceId

\* C1: once a refresh of (rt, deviceId) has succeeded, a refresh presenting
\* the same rt fails with InvalidToken, whatever the deviceId (SpecReplay).
C1_SingleUseRotation ==
  \A pr \in rotated : \A d \in Devices : refreshOutcome(pr[1], d) = "InvalidToken"

\* C2: two refreshes of the same valid rt and deviceId that are in flight
\* together never both succeed (SpecConc).  Only the pairs are looked at in
\* which neither refresh signed rt itself again.
C2_ConcurrentRefreshExclusive ==
  ~(/\ BothDone("refresh")
    /\ inflight[1].tok = inflight[2].tok
    /\ \A p \in Procs : inflight[p].rt # inflight[p].tok)

\* C3: with requests handled one after the other, the refresh_token table
\* holds at most one non-revoked record per (userId, deviceId) (Spec).
C3_OneLiveRecordPerDevice ==
  \A u \in DOMAIN users : \A d \in Devices : Cardinality(LiveRows(u, d)) <= 1
\* a second record was issued to a device that already had one
C3_Witness ==
  \E i, j \in DOMAIN tokens :
    /\ i < j
    /\ tokens[i].userId = tokens[j].userId
    /\ tokens[i].deviceId = tokens[j].deviceId
    /\ tokens[i].isRevoked
    /\ ~tokens[j].isRevoked

\* C4: two generateTokens calls for the same (userId, deviceId) that are in
\* flight together never leave two non-revoked records for the pair (SpecConc).
C4_ConcurrentIssueOneLive ==
  BothDone("login") =>
    Cardinality(LiveRows(inflight[1].userId, inflight[1].deviceId)) <= 1

\* C5: after 5 failed logins for an email within the window, a login with a
\* password the account accepts fails with AccountLocked and issues nothing
\* (SpecLogin).
C5_LockedOutWithCorrectPassword ==
  (last.op = "login" /\ {"locked", "accepted"} \subseteq last.flags)
    => (last.result = "AccountLocked" /\ "wrote" \notin last.flags)

\* C6: an access token (with jti, not yet expired) that a logout has returned
\* for is blacklisted at every later time before its exp (SpecBlacklist).
C6_BlacklistedUntilExpiry ==
  \A e \in loggedOutAT : now < e.token.exp => isTokenBlacklisted(e.token)
\* time has passed since the logout and the token has not expired
C6_Witness ==
  \E e \in loggedOutAT : /\ e.since < now
                          /\ now < e.token.exp
                          /\ getBlacklisted(blacklist, e.token.jti)

\* C7: after a logout of (userId, deviceId), every refresh token issued to
\* the pair before the logout is rejected by refreshTokens (SpecReplay).
C7_LogoutRejectsEarlierTokens ==
  \A pr \in loggedOutRT : refreshOutcome(pr[1], pr[2]) # "ok"

\* C8: a refresh whose deviceId differs from the deviceId inside the token
\* fails with InvalidToken and leaves the tables as they were (Spec).
C8_DeviceMismatchRejected ==
  (last.op = "refresh" /\ "mismatch" \in last.flags)
    => (last.result = "InvalidToken" /\ "wrote" \notin last.flags)
\* the token presented was live for its own device
C8_Witness ==
  /\ last.op = "refresh"
  /\ {"mismatch", "valid"} \subseteq last.flags
  /\ last.result = "InvalidToken"

\* C9: a register with an email that was registered before fails with 409
\* 'Email already registered' and creates no user and no record (Spec).
C9_DuplicateEmailConflict ==
  (last.op = "register" /\ "dup" \in last.flags)
    => (last.result = "Conflict" /\ "wrote" \notin last.flags)

\* C10: a login with the stored email and the registered password of a user
\* returns a pair whose access token carries that user's id, email and role
\* and a jti no other token has (SpecLogin).
C10_LoginReturnsUsersTokens ==
  (last.op = "login" /\ "matches" \in last.flags)
    => /\ last.result = "ok"
       /\ \E at \in accessTokens :
            /\ at.jti = last.jti
            /\ at.sub = last.user
            /\ at.email = users[last.user].email
            /\ at.role = users[last.user].role
            /\ \A other \in accessTokens : other.jti = at.jti => other = at

\* the flags of a token string the blacklist check cannot clear
Unclear == {"missing", "garbled", "nojti", "cacheDown", "listed"}

\* C11: the refresh token returned by a successful refresh differs from the
\* one presented, also when both are signed in the same second (Spec).
C11_RefreshReturnsNewToken ==
  (last.op = "refresh" /\ last.result = "ok") => "same" \notin last.flags

\* C12: isTokenBlacklisted answers false exactly when the token decodes with
\* a jti, the cache answers, and no blacklist entry exists for the jti; a
\* missing, undecodable or jti-less token and a failed lookup give true
\* (SpecTokens).
C12_BlacklistFailClosed ==
  last.op = "check" =>
    (last.result = "clear" <=> last.flags \cap Unclear = {})
\* a token that is not listed was asked about while the cache was down
C12_Witness ==
  /\ last.op = "check"
  /\ last.flags = {"cacheDown"}
  /\ last.result = "blacklisted"

\* C13: every logout reaches the revocation of (userId, deviceId), also
\* with a missing or undecodable token or one without jti or exp or already
\* expired; the cache is up (SpecTokens).
C13_LogoutAlwaysRevokes ==
  (last.op = "logout" /\ "cacheDown" \notin last.flags)
    => (last.result = "ok" /\ "revoked" \in last.flags)

\* C14: a logout with a decodable token whose blacklist write is rejected
\* still returns normally and revokes the records of (userId, deviceId)
\* (SpecTokens).
C14_LogoutSurvivesCacheFailure ==
  (last.op = "logout" /\ "cacheDown" \in last.flags
                      /\ last.flags \cap {"missing", "garbled"} = {})
    => (last.result = "ok" /\ "revoked" \in last.flags)

\* C15: with the cache unavailable, a login with wrong credentials still
\* ends with InvalidCredentials and one the account accepts still succeeds
\* (SpecFaults).
C15_CounterFailOpen ==
  (last.op = "login" /\ "cacheDown" \in last.flags)
    => last.result = (IF "accepted" \in last.flags THEN "ok"
                      ELSE "InvalidCredentials")

\* C16: a failed login ends with AccountLocked when the count of its email
\* after this attempt's increment is at least 5 and with InvalidCredentials
\* otherwise, whether the email has no user or a user with another password
\* (SpecWindow).
C16_NoUserOracle ==
  (last.op = "login" /\ last.result # "ok")
    => last.result = (IF "fifth" \in last.flags THEN "AccountLocked"
                      ELSE "InvalidCredentials")
\* the fifth failure in a row for the email of a user
C16_Witness ==
  /\ last.op = "login"
  /\ "fifth" \in last.flags
  /\ {"nouser", "accepted"} \cap last.flags = {}
  /\ last.result = "AccountLocked"

\* C17: a login whose email equals the stored email of a user up to letter
\* case, with a password that account accepts, succeeds (SpecLogin).
C17_CaseInsensitiveLookup ==
  (last.op = "login" /\ "variant" \in last.flags) => last.result = "ok"

C19_RefreshFailsAsInvalidToken ==
  \A p \in Procs :
    (/\ inflight[p].pc = "done"
     /\ inflight[p].kind = "refresh"
     /\ inflight[p].result \notin {"ok", "QueryFailed"})
    => inflight[p].result = "InvalidToken"

\* C21: revokeRefreshTokensForDevice raises no error whatever records the
\* user and device have, leaves every record of that user and device
\* revoked, and changes nothing when none of them was live (a second call,
\* no record, only revoked records)
C21_RevokeIdempotent ==
  last.op = "revoke" =>
    /\ last.result = "ok"
    /\ \A i \in DOMAIN tokens :
         (tokens[i].userId = last.user /\ tokens[i].deviceId \in last.flags)
         => tokens[i].isRevoked
    /\ "settled" \in last.flags => "wrote" \notin last.flags
C21_Witness ==
  /\ last.op = "revoke"
  /\ "settled" \in last.flags
  /\ "none" \notin last.flags
  /\ "wrote" \notin last.flags

\* C22: the expiresIn reported for a duration string is n, 60n, 3600n,
\* 86400n or 604800n when the string is the digits of n followed by s, m, h,
\* d or w, and 900 when the string is empty, does not end in one of the
\* units, or what precedes the unit is not a number
IsNumber(cs) == cs # <<>> /\ \A i \in DOMAIN cs : cs[i] \in Digits
UnitSeconds(u) ==
  CASE u = "s" -> 1 [] u = "m" -> 60 [] u = "h" -> 3600
    [] u = "d" -> 86400 [] u = "w" -> 604800 [] OTHER -> 0
C22_DurationParsed ==
  expiresIn # NotParsed =>
    expiresIn =
      IF duration = <<>> THEN DefaultExpiresIn
      ELSE LET part == SubSeq(duration, 1, Len(duration) - 1)
               unit == duration[Len(duration)]
           IN IF UnitSeconds(unit) = 0 \/ ~IsNumber(part) THEN DefaultExpiresIn
              ELSE decimal(part) * UnitSeconds(unit)

\* C23: get(k) returns the value of the most recent set(k, v, ttl) when no
\* delete of k followed it and its ttl has not elapsed, and null when k was
\* never set, was deleted since, or its ttl has elapsed (a ttl of zero or
\* less has elapsed at once)
C23_CacheIsMapWithExpiry ==
  last.op = "cacheGet" =>
    LET w == written[last.key]
    IN last.result = IF w.kind = "set" /\ last.at < w.at + w.ttl * 1000
                     THEN w.value ELSE "null"

\* C30: the cache map never holds more than maxSize entries
C30_CacheWithinMaxSize == size(cache) <= maxSize

\* C24: a request bearing an access token that a logout has returned for
\* and that has not expired is rejected by every guarded route, behind the
\* passport guard and behind the common JwtAuthGuard alike
C24_BlacklistedTokenRejected ==
  (last.op = "request" /\ "loggedOut" \in last.flags) => last.result # "ok"

\* C25: the expiry of a login-attempt counter is the one set when its first
\* failure created it: a counter that exists disappears no later than 300
\* seconds after that first failure, whatever failures follow (SpecWindow).
C25_LockoutWindowFixed ==
  \A e \in LoginEmails :
    (Live(attempts[e]) /\ attempts[e].expireAt # NoTTL)
    => attempts[e].expireAt <= attempts[e].first + LockoutSeconds

\* C26: a login-attempt counter that exists has an expiry, also when a cache
\* call of the attempt that created it was rejected (SpecFaults).
C26_CounterAlwaysExpires ==
  \A e \in LoginEmails : Live(attempts[e]) => attempts[e].expireAt # NoTTL

\* C27: after a login has succeeded, the counter of the email it was for is
\* absent or zero (SpecWindow).
C27_SuccessResetsCounter ==
  (last.op = "login" /\ last.result = "ok")
  => \A at \in accessTokens :
       at.jti = last.jti => getCount(attempts, at.email) = 0

\* C28: a refresh that ends with an error raised after its token was found
\* valid (a failure of the store or of the signer while the new pair is
\* issued) leaves the table as it was: the token presented is still stored,
\* unrevoked, for its user and device, and can be refreshed again.
C28_FailedRefreshKeepsSession ==
  \A p \in OneProc :
    LET r == inflight[p]
    IN (r.pc = "done" /\ r.kind = "refresh"
        /\ r.result \notin {"ok", "InvalidToken"})
       => findValidToken(tokens, r.tok, r.userId, r.deviceId) # {}

\* C29: a register, login, refresh or logout made for user u and device d
\* leaves every RefreshToken record of another (userId, deviceId) pair in
\* place and as it was, its isRevoked flag included, and adds no record
\* that belongs to another pair.
OtherPair(row, userId, deviceId) == row.userId # userId \/ row.deviceId # deviceId
====
